---- MODULE Spec2Model ----
(***************************************************************************)
(* WinHttpWebSocketTransport (win_http_websockets.cpp): the synchronous,   *)
(* cancellable WebSocket calls built on WinHTTP's asynchronous             *)
(* completions.  Caller threads run OnUpgradedConnection, Close,           *)
(* NativeCloseSocket, NativeGetCloseSocketInformation, NativeSendFrame and *)
(* NativeReceiveFrame against one transport; the native facility completes *)
(* the issued operations on its own thread, and callers cancel contexts.   *)
(* WinHttpAction (WaitForAction, GetStowedError, GetWebSocketStatus) and   *)
(* GetErrorAndThrow live outside this file and follow the design document. *)
(***************************************************************************)
EXTENDS Integers, Sequences, FiniteSets

\* ---------------------------------------------------------------- bounds
NumThreads == 2
MaxCalls == 3
MaxUpgrades == 2

\* ------------------------------------------------------ program constants
ScratchSize == 128
ERROR_WINHTTP_OPERATION_CANCELLED == 12017
ERROR_INSUFFICIENT_BUFFER == 122
ERROR_INVALID_HANDLE == 6
ERROR_WINHTTP_CONNECTION_ERROR == 12030

Threads == 1..NumThreads
NoThread == 0
NullHandle == 0
Handles == 1..MaxUpgrades

WRITE_COMPLETE == "WRITE_COMPLETE"
READ_COMPLETE == "READ_COMPLETE"
CLOSE_COMPLETE == "CLOSE_COMPLETE"
HANDLE_CLOSING == "HANDLE_CLOSING"
Statuses == {WRITE_COMPLETE, READ_COMPLETE, CLOSE_COMPLETE, HANDLE_CLOSING}

\* NativeWebSocketFrameType, the values a caller can pass or receive.
FrameTypes == {"Text", "Binary", "BinaryFragment", "TextFragment", "Closed"}

\* WINHTTP_WEB_SOCKET_BUFFER_TYPE, plus a value outside the enumeration.
BufferTypes ==
  {"UTF8_MESSAGE", "BINARY_MESSAGE", "BINARY_FRAGMENT", "UTF8_FRAGMENT", "CLOSE",
   "UNKNOWN_BUFFER"}

\* Close statuses a caller sends and a peer reports.
CloseStatuses == {1000, 1001}

\* What a READ_COMPLETE completion can report: WINHTTP_WEB_SOCKET_STATUS.
ReadReports ==
  {[bytes |-> 5, kind |-> k] : k \in BufferTypes}
    \cup {[bytes |-> n, kind |-> "BINARY_MESSAGE"] : n \in {0, ScratchSize}}

NoReport == [bytes |-> 0, kind |-> "BINARY_MESSAGE"]

\* Error codes an asynchronous completion can carry (0: success).
CompletionErrors ==
  {0, ERROR_WINHTTP_OPERATION_CANCELLED, ERROR_WINHTTP_CONNECTION_ERROR}

VARIABLES
  m_socketHandle,   \* the UniqueHandle: NullHandle or a handle
  handles,          \* handles obtained from WinHttpWebSocketCompleteUpgrade so far
  released,         \* per handle, the number of WinHttpCloseHandle calls on it
  closing,          \* closed handles whose HANDLE_CLOSING has not been reported yet
  tstate,           \* Unupgraded / Open / Closing / Closed, as the design counts it
  m_sendMutex,      \* owner of m_sendMutex (NoThread: free)
  m_receiveMutex,   \* owner of m_receiveMutex
  pending,          \* per status, the threads whose issued operation is outstanding
  orphans,          \* per status, outstanding operations whose caller has left
  stowed,           \* WinHttpAction: the stowed error per status
  wsStatus,         \* WinHttpAction: GetWebSocketStatus(READ_COMPLETE)
  pc,               \* each thread's position
  arg,              \* the running call's close status, or the handle Close read
  ctx,              \* whether the running call's context is cancelled
  waitResult,       \* what WaitForAction returned to the thread
  buffer,           \* NativeReceiveFrame's scratch vector
  issued,           \* the handle of each native call of the running call, in order
  result,           \* how the call ended
  frame,            \* the frame NativeReceiveFrame returned, or NativeSendFrame was given
  calls             \* calls started so far

vars ==
  <<m_socketHandle, handles, released, closing, tstate, m_sendMutex, m_receiveMutex,
    pending, orphans, stowed, wsStatus, pc, arg, ctx, waitResult, buffer,
    issued, result, frame, calls>>

\* ---------------------------------------------------------------- results
NoResult == [kind |-> "none", code |-> 0, got |-> 0, expected |-> 0]
Ok == [kind |-> "ok", code |-> 0, got |-> 0, expected |-> 0]

\* GetErrorAndThrow(message, error): a transport fault carrying the native code.
GetErrorAndThrow(err) ==
  [kind |-> "TransportException", code |-> err, got |-> 0, expected |-> 0]

\* throw std::runtime_error("Unknown frame type: ...")
UnknownFrameType ==
  [kind |-> "runtime_error:Unknown frame type", code |-> 0, got |-> 0, expected |-> 0]

\* throw std::runtime_error("Close status mismatch, got X expected Y")
CloseStatusMismatch(g, e) ==
  [kind |-> "runtime_error:Close status mismatch", code |-> 0, got |-> g, expected |-> e]

\* context.ThrowIfCancelled()
OperationCancelled ==
  [kind |-> "OperationCancelledException", code |-> 0, got |-> 0, expected |-> 0]

NoFrame == [type |-> "none", payload |-> <<>>]
NoIssue == <<>>

\* ------------------------------------------------------- pure functions
\* NativeSendFrame's switch: frame type to native buffer type ("none": default).
SendBufferType(ft) ==
  CASE ft = "Text" -> "UTF8_MESSAGE"
    [] ft = "Binary" -> "BINARY_MESSAGE"
    [] ft = "BinaryFragment" -> "BINARY_FRAGMENT"
    [] ft = "TextFragment" -> "UTF8_FRAGMENT"
    [] OTHER -> "none"

\* Mutant: the receive switch with the two fragment kinds exchanged.
ReceivedFrameType_FragmentsSwapped(bt) ==
  CASE bt = "UTF8_MESSAGE" -> "Text"
    [] bt = "BINARY_MESSAGE" -> "Binary"
    [] bt = "BINARY_FRAGMENT" -> "TextFragment"
    [] bt = "UTF8_FRAGMENT" -> "BinaryFragment"
    [] bt = "CLOSE" -> "Closed"
    [] OTHER -> "none"

\* NativeReceiveFrame's switch: reported buffer type to frame type ("none": default).
ReceivedFrameType(bt) ==
  CASE bt = "UTF8_MESSAGE" -> "Text"
    [] bt = "BINARY_MESSAGE" -> "Binary"
    [] bt = "BINARY_FRAGMENT" -> "BinaryFragment"
    [] bt = "UTF8_FRAGMENT" -> "TextFragment"
    [] bt = "CLOSE" -> "Closed"
    [] OTHER -> "none"

\* std::vector<uint8_t> buffer(128): value-initialised.
NewBuffer == [i \in 1..ScratchSize |-> 0]

\* std::vector::resize(n): the first n elements, zero-filled when it grows.
Resize(buf, n) ==
  IF n <= Len(buf) THEN SubSeq(buf, 1, n)
  ELSE buf \o [i \in 1..(n - Len(buf)) |-> 0]

\* Mutant: the scratch buffer is returned untrimmed.
TrimToTransferred_Whole(buf, status) == buf

\* buffer.resize(GetWebSocketStatus(READ_COMPLETE)->dwBytesTransferred)
TrimToTransferred(buf, status) == Resize(buf, status.bytes)

\* The i-th byte the peer sent (never 0, so that data differs from the fill).
DataByte(i) == ((i - 1) % 255) + 1

\* The native receive writes the n delivered bytes at the front of the caller's buffer.
Deliver(buf, n) == [i \in 1..Len(buf) |-> IF i <= n THEN DataByte(i) ELSE buf[i]]

\* ------------------------------------------------------ native facility
\* The synchronous result of WinHttpWebSocketSend / WinHttpWebSocketClose /
\* WinHttpWebSocketQueryCloseStatus on handle h.  A handle already closed is
\* refused, unless the facility still knows it (any result).
NativeSyncResults(h) ==
  IF h = NullHandle THEN {ERROR_INVALID_HANDLE}
  ELSE IF released[h] > 0 THEN {0, ERROR_INVALID_HANDLE, ERROR_WINHTTP_CONNECTION_ERROR}
  ELSE {0, ERROR_WINHTTP_CONNECTION_ERROR}

\* The synchronous result of WinHttpWebSocketReceive on handle h.
NativeReceiveResults(h) ==
  IF h = NullHandle THEN {ERROR_INVALID_HANDLE}
  ELSE NativeSyncResults(h) \cup {ERROR_INSUFFICIENT_BUFFER}

CompletionErrorsOf(S) == IF S = HANDLE_CLOSING THEN {0} ELSE CompletionErrors

\* ---------------------------------------------------------- positions
WaitPc(S) ==
  CASE S = WRITE_COMPLETE -> "send_wait"
    [] S = READ_COMPLETE -> "recv_wait"
    [] S = CLOSE_COMPLETE -> "ncs_wait"
    [] S = HANDLE_CLOSING -> "close_wait"

\* Where a thread continues when its WaitForAction returns.
WokenPc(S) ==
  CASE S = WRITE_COMPLETE -> "send_woken"
    [] S = READ_COMPLETE -> "recv_woken"
    [] S = CLOSE_COMPLETE -> "ncs_woken"
    [] S = HANDLE_CLOSING -> "close_woken"

CancellableStatuses == {WRITE_COMPLETE, READ_COMPLETE, CLOSE_COMPLETE}
DonePcs == {"upgrade_done", "close_done", "ncs_done", "info_done", "send_done", "recv_done"}

Outstanding(S) == Cardinality(pending[S]) + orphans[S]

Init ==
  /\ m_socketHandle = NullHandle
  /\ handles = 0
  /\ released = [h \in Handles |-> 0]
  /\ closing = {}
  /\ tstate = "Unupgraded"
  /\ m_sendMutex = NoThread
  /\ m_receiveMutex = NoThread
  /\ pending = [S \in Statuses |-> {}]
  /\ orphans = [S \in Statuses |-> 0]
  /\ stowed = [S \in Statuses |-> 0]
  /\ wsStatus = NoReport
  /\ pc = [t \in Threads |-> "idle"]
  /\ arg = [t \in Threads |-> 0]
  /\ ctx = [t \in Threads |-> FALSE]
  /\ waitResult = [t \in Threads |-> FALSE]
  /\ buffer = [t \in Threads |-> <<>>]
  /\ issued = [t \in Threads |-> NoIssue]
  /\ result = [t \in Threads |-> NoResult]
  /\ frame = [t \in Threads |-> NoFrame]
  /\ calls = 0

\* A call starts on a thread that runs none: one that has made no call yet, or
\* whose last call has ended (its outcome stays visible until the next call).
CanStart(t) == pc[t] \in {"idle"} \cup DonePcs /\ calls < MaxCalls

\* A call begins on thread t: its locals are fresh (argument a, context c, scratch
\* buffer buf, frame f), iss the native calls it has made so far, r its outcome if
\* it has already ended.
BeginCall(t, where, a, c, buf, iss, r, f) ==
  /\ pc' = [pc EXCEPT ![t] = where]
  /\ calls' = calls + 1
  /\ arg' = [arg EXCEPT ![t] = a]
  /\ ctx' = [ctx EXCEPT ![t] = c]
  /\ waitResult' = [waitResult EXCEPT ![t] = FALSE]
  /\ buffer' = [buffer EXCEPT ![t] = buf]
  /\ issued' = [issued EXCEPT ![t] = iss]
  /\ result' = [result EXCEPT ![t] = r]
  /\ frame' = [frame EXCEPT ![t] = f]

\* A call that is given no frame.
Begin(t, where, a, c, buf, iss, r) == BeginCall(t, where, a, c, buf, iss, r, NoFrame)

\* The call of thread t ends with outcome r.
Finish(t, where, r) ==
  /\ pc' = [pc EXCEPT ![t] = where]
  /\ result' = [result EXCEPT ![t] = r]

\* ------------------------------------------------ OnUpgradedConnection
\* m_socketHandle = UniqueHandle(WinHttpWebSocketCompleteUpgrade(...)): the move
\* assignment closes the handle held before; then the two failure checks.
\* how: "ok", "nohandle" (the upgrade returned no handle), "noregister"
\* (RegisterWinHttpStatusCallback returned false).
OnUpgradedConnection(t, how) ==
  /\ CanStart(t)
  /\ handles < MaxUpgrades
  /\ LET new == IF how = "nohandle" THEN NullHandle ELSE handles + 1
         old == m_socketHandle
     IN /\ m_socketHandle' = new
        /\ handles' = IF how = "nohandle" THEN handles ELSE handles + 1
        /\ released' = IF old = NullHandle THEN released
                       ELSE [released EXCEPT ![old] = @ + 1]
        /\ closing' = IF old # NullHandle /\ released[old] = 0
                      THEN closing \cup {old} ELSE closing
        /\ orphans' = IF old = NullHandle THEN orphans
                      ELSE [orphans EXCEPT ![HANDLE_CLOSING] = @ + 1]
        /\ Begin(t, "upgrade_done", 0, FALSE, <<>>,
                 IF old = NullHandle THEN NoIssue ELSE <<old>>,
                 IF how = "ok" THEN Ok ELSE GetErrorAndThrow(ERROR_INVALID_HANDLE))
  /\ tstate' = IF how = "ok" THEN "Open" ELSE tstate
  /\ UNCHANGED <<m_sendMutex, m_receiveMutex, pending, stowed, wsStatus>>

\* ---------------------------------------------------------------- Close
\* Mutant: Close without the test of the handle.
CloseHasHandle_Always == TRUE

\* if (m_socketHandle)
CloseHasHandle == m_socketHandle # NullHandle

\* Close(): without a handle it returns at once; with one it enters WaitForAction
\* (with a fresh Context, which nobody can cancel).
Close_Begin(t) ==
  /\ CanStart(t)
  /\ IF CloseHasHandle
     THEN /\ Begin(t, "close_action", 0, FALSE, <<>>, NoIssue, NoResult)
          /\ tstate' = IF tstate = "Open" THEN "Closing" ELSE tstate
     ELSE /\ Begin(t, "close_done", 0, FALSE, <<>>, NoIssue, Ok)
          /\ UNCHANGED tstate
  /\ UNCHANGED <<m_socketHandle, handles, released, closing, m_sendMutex, m_receiveMutex,
                 pending, orphans, stowed, wsStatus>>

\* The action's m_socketHandle.reset(), first half: read the held handle.
Close_ResetRead(t) ==
  /\ pc[t] = "close_action"
  /\ arg' = [arg EXCEPT ![t] = m_socketHandle]
  /\ pc' = [pc EXCEPT ![t] = "close_reset"]
  /\ UNCHANGED <<m_socketHandle, handles, released, closing, tstate, m_sendMutex,
                 m_receiveMutex, pending, orphans, stowed, wsStatus, ctx,
                 waitResult, buffer, issued, result, frame, calls>>

\* reset(), second half: null the member and close the handle read, if any
\* (WinHttpCloseHandle, which will report HANDLE_CLOSING); then the wait begins.
Close_ResetRelease(t) ==
  /\ pc[t] = "close_reset"
  /\ m_socketHandle' = NullHandle
  /\ LET old == arg[t]
     IN IF old = NullHandle
        THEN UNCHANGED <<released, closing, pending, issued>>
        ELSE /\ released' = [released EXCEPT ![old] = @ + 1]
             /\ closing' = IF released[old] = 0 THEN closing \cup {old} ELSE closing
             /\ pending' = [pending EXCEPT ![HANDLE_CLOSING] = @ \cup {t}]
             /\ issued' = [issued EXCEPT ![t] = <<old>>]
  /\ pc' = [pc EXCEPT ![t] = "close_wait"]
  /\ UNCHANGED <<handles, tstate, m_sendMutex, m_receiveMutex, orphans, stowed,
                 wsStatus, arg, ctx, waitResult, buffer, result, frame, calls>>

\* WaitForAction's result is not looked at: Close returns.
Close_Finish(t) ==
  /\ pc[t] = "close_woken"
  /\ Finish(t, "close_done", Ok)
  /\ UNCHANGED <<m_socketHandle, handles, released, closing, tstate, m_sendMutex,
                 m_receiveMutex, pending, orphans, stowed, wsStatus, arg, ctx,
                 waitResult, buffer, issued, frame, calls>>

\* ------------------------------------- NativeGetCloseSocketInformation
\* context.ThrowIfCancelled(); WinHttpWebSocketQueryCloseStatus; the outcomes are
\* a cancellation, a fault with the native code, or the status the peer reported
\* (as the "got" field of an ok result).
CloseInformation(cancelled, h) ==
  IF cancelled THEN {OperationCancelled}
  ELSE {GetErrorAndThrow(e) : e \in NativeSyncResults(h) \ {0}}
         \cup {[Ok EXCEPT !.got = r] : r \in {r \in CloseStatuses : 0 \in NativeSyncResults(h)}}

\* c: whether the caller's context is already cancelled.
NativeGetCloseSocketInformation(t, c) ==
  /\ CanStart(t)
  /\ \E r \in CloseInformation(c, m_socketHandle) :
       Begin(t, "info_done", 0, c, <<>>, IF c THEN NoIssue ELSE <<m_socketHandle>>, r)
  /\ UNCHANGED <<m_socketHandle, handles, released, closing, tstate, m_sendMutex,
                 m_receiveMutex, pending, orphans, stowed, wsStatus>>

\* ------------------------------------------------------ NativeCloseSocket
\* The action of the first WaitForAction: WinHttpWebSocketClose(handle, status);
\* a non-zero result is thrown out of the call.
NativeCloseSocket_Issue(t, status) ==
  /\ CanStart(t)
  /\ \E err \in NativeSyncResults(m_socketHandle) :
       IF err # 0
       THEN /\ Begin(t, "ncs_done", status, FALSE, <<>>, <<m_socketHandle>>,
                     GetErrorAndThrow(err))
            /\ UNCHANGED pending
       ELSE /\ Begin(t, "ncs_wait", status, FALSE, <<>>, <<m_socketHandle>>, NoResult)
            /\ pending' = [pending EXCEPT ![CLOSE_COMPLETE] = @ \cup {t}]
  /\ UNCHANGED <<m_socketHandle, handles, released, closing, tstate, m_sendMutex,
                 m_receiveMutex, orphans, stowed, wsStatus>>

\* Mutant: every stowed error is fatal, ERROR_WINHTTP_OPERATION_CANCELLED too.
CloseWaitIsFatal_AnyError(waited, err) == ~waited /\ err # 0

\* Lines 119-129: the wait failed with a stowed error that is neither 0 nor
\* ERROR_WINHTTP_OPERATION_CANCELLED.
CloseWaitIsFatal(waited, err) ==
  /\ ~waited
  /\ err # 0
  /\ err # ERROR_WINHTTP_OPERATION_CANCELLED

\* Mutant: the reported status is never compared.
CloseStatusDiffers_Never(reported, status) == FALSE

\* if (closeInformation.CloseReason != status) throw
CloseStatusDiffers(reported, status) == reported # status

\* After the wait: the stowed-error check, then
\* closeInformation = NativeGetCloseSocketInformation(context), whose exceptions
\* leave the call; result holds closeInformation until the comparison.
NativeCloseSocket_Query(t) ==
  /\ pc[t] = "ncs_woken"
  /\ IF CloseWaitIsFatal(waitResult[t], stowed[CLOSE_COMPLETE])
     THEN /\ Finish(t, "ncs_done", GetErrorAndThrow(stowed[CLOSE_COMPLETE]))
          /\ UNCHANGED issued
     ELSE /\ issued' = [issued EXCEPT ![t] =
                          IF ctx[t] THEN @ ELSE Append(@, m_socketHandle)]
          /\ \E info \in CloseInformation(ctx[t], m_socketHandle) :
               Finish(t, IF info.kind = "ok" THEN "ncs_info" ELSE "ncs_done", info)
  /\ UNCHANGED <<m_socketHandle, handles, released, closing, tstate, m_sendMutex,
                 m_receiveMutex, pending, orphans, stowed, wsStatus, arg, ctx,
                 waitResult, buffer, frame, calls>>

\* The server should return the same status we sent: a mismatch throws.
CloseOutcome(info, status) ==
  IF CloseStatusDiffers(info.got, status)
  THEN CloseStatusMismatch(info.got, status)
  ELSE info

NativeCloseSocket_Compare(t) ==
  /\ pc[t] = "ncs_info"
  /\ Finish(t, "ncs_done", CloseOutcome(result[t], arg[t]))
  /\ UNCHANGED <<m_socketHandle, handles, released, closing, tstate, m_sendMutex,
                 m_receiveMutex, pending, orphans, stowed, wsStatus, arg, ctx,
                 waitResult, buffer, issued, frame, calls>>

\* -------------------------------------------------------- NativeSendFrame
\* The switch on frameType: an unknown type throws before the lock is taken.
NativeSendFrame_Begin(t, ft) ==
  /\ CanStart(t)
  /\ LET given == [type |-> ft, payload |-> <<>>]
     IN IF SendBufferType(ft) = "none"
        THEN BeginCall(t, "send_done", 0, FALSE, <<>>, NoIssue, UnknownFrameType, given)
        ELSE BeginCall(t, "send_lock", 0, FALSE, <<>>, NoIssue, NoResult, given)
  /\ UNCHANGED <<m_socketHandle, handles, released, closing, tstate, m_sendMutex,
                 m_receiveMutex, pending, orphans, stowed, wsStatus>>

\* Mutant: NativeSendFrame without the lock.
SendLockFree_Unlocked == TRUE

\* std::lock_guard<std::mutex> lock(m_sendMutex) can be taken.
SendLockFree == m_sendMutex = NoThread

\* The lock guard's release of m_sendMutex when the call leaves with outcome r:
\* the destructor runs on a return and on a throw alike.
SendLockOnExit(holder, r) == NoThread

\* The lock is taken; WaitForAction runs the action, which first evaluates
\* m_socketHandle.get() for the native call.
NativeSendFrame_Lock(t) ==
  /\ pc[t] = "send_lock"
  /\ SendLockFree
  /\ m_sendMutex' = t
  /\ issued' = [issued EXCEPT ![t] = <<m_socketHandle>>]
  /\ pc' = [pc EXCEPT ![t] = "send_call"]
  /\ UNCHANGED <<m_socketHandle, handles, released, closing, tstate, m_receiveMutex,
                 pending, orphans, stowed, wsStatus, arg, ctx, waitResult, buffer,
                 result, frame, calls>>

\* The action calls WinHttpWebSocketSend on the handle it read; a non-zero result
\* is thrown (the guard releases the lock), otherwise the wait for WRITE_COMPLETE
\* begins with the lock held.
NativeSendFrame_Issue(t) ==
  /\ pc[t] = "send_call"
  /\ \E err \in NativeSyncResults(issued[t][1]) :
       IF err # 0
       THEN /\ Finish(t, "send_done", GetErrorAndThrow(err))
            /\ m_sendMutex' = SendLockOnExit(t, GetErrorAndThrow(err))
            /\ UNCHANGED pending
       ELSE /\ pc' = [pc EXCEPT ![t] = "send_wait"]
            /\ pending' = [pending EXCEPT ![WRITE_COMPLETE] = @ \cup {t}]
            /\ UNCHANGED <<m_sendMutex, result>>
  /\ UNCHANGED <<m_socketHandle, handles, released, closing, tstate, m_receiveMutex,
                 orphans, stowed, wsStatus, arg, ctx, waitResult, buffer, issued,
                 frame, calls>>

\* Mutant: NativeSendFrame ignores what WaitForAction returned.
SendOutcome_AlwaysOk(waited, err) == Ok

\* How NativeSendFrame ends once WaitForAction has returned.
SendOutcome(waited, err) == IF waited THEN Ok ELSE GetErrorAndThrow(err)

\* WaitForAction returned: false throws with the stowed WRITE_COMPLETE error; the
\* lock guard releases m_sendMutex either way.
NativeSendFrame_Finish(t) ==
  /\ pc[t] = "send_woken"
  /\ Finish(t, "send_done", SendOutcome(waitResult[t], stowed[WRITE_COMPLETE]))
  /\ m_sendMutex' = SendLockOnExit(t, result'[t])
  /\ UNCHANGED <<m_socketHandle, handles, released, closing, tstate, m_receiveMutex,
                 pending, orphans, stowed, wsStatus, arg, ctx, waitResult, buffer,
                 issued, frame, calls>>

\* ----------------------------------------------------- NativeReceiveFrame
\* std::vector<uint8_t> buffer(128) and the other locals, before the lock.
NativeReceiveFrame_Begin(t) ==
  /\ CanStart(t)
  /\ Begin(t, "recv_lock", 0, FALSE, NewBuffer, NoIssue, NoResult)
  /\ UNCHANGED <<m_socketHandle, handles, released, closing, tstate, m_sendMutex,
                 m_receiveMutex, pending, orphans, stowed, wsStatus>>

\* Mutant: NativeReceiveFrame also waits for the send path's lock.
ReceiveLockFree_AfterSend == m_receiveMutex = NoThread /\ m_sendMutex = NoThread

\* std::lock_guard<std::mutex> lock(m_receiveMutex) can be taken.
ReceiveLockFree == m_receiveMutex = NoThread

\* if (err != 0 && err != ERROR_INSUFFICIENT_BUFFER) GetErrorAndThrow(...)
ReceiveCallFailed(err) == err # 0 /\ err # ERROR_INSUFFICIENT_BUFFER

\* Mutant: the receive lock is released on a return only, not on a throw.
ReceiveLockOnExit_KeptOnThrow(holder, r) == IF r.kind = "ok" THEN NoThread ELSE holder

\* The lock guard's release of m_receiveMutex when the call leaves with outcome r:
\* the destructor runs on a return and on a throw alike.
ReceiveLockOnExit(holder, r) == NoThread

\* The lock is taken; WaitForAction runs the action, which first evaluates
\* m_socketHandle.get() for the native call.
NativeReceiveFrame_Lock(t) ==
  /\ pc[t] = "recv_lock"
  /\ ReceiveLockFree
  /\ m_receiveMutex' = t
  /\ issued' = [issued EXCEPT ![t] = <<m_socketHandle>>]
  /\ pc' = [pc EXCEPT ![t] = "recv_call"]
  /\ UNCHANGED <<m_socketHandle, handles, released, closing, tstate, m_sendMutex,
                 pending, orphans, stowed, wsStatus, arg, ctx, waitResult, buffer,
                 result, frame, calls>>

\* The action calls WinHttpWebSocketReceive, on the handle it read, into the buffer.
NativeReceiveFrame_Issue(t) ==
  /\ pc[t] = "recv_call"
  /\ \E err \in NativeReceiveResults(issued[t][1]) :
       IF ReceiveCallFailed(err)
       THEN /\ Finish(t, "recv_done", GetErrorAndThrow(err))
            /\ m_receiveMutex' = ReceiveLockOnExit(t, GetErrorAndThrow(err))
            /\ UNCHANGED pending
       ELSE /\ pc' = [pc EXCEPT ![t] = "recv_wait"]
            /\ pending' = [pending EXCEPT ![READ_COMPLETE] = @ \cup {t}]
            /\ UNCHANGED <<m_receiveMutex, result>>
  /\ UNCHANGED <<m_socketHandle, handles, released, closing, tstate, m_sendMutex,
                 orphans, stowed, wsStatus, arg, ctx, waitResult, buffer, issued,
                 frame, calls>>

\* WaitForAction returned: false throws with the stowed READ_COMPLETE error;
\* otherwise the buffer is trimmed to the transferred bytes and the reported
\* buffer type is mapped (an unknown one throws).  The lock guard releases.
NativeReceiveFrame_Finish(t) ==
  /\ pc[t] = "recv_woken"
  /\ IF ~waitResult[t]
     THEN /\ Finish(t, "recv_done", GetErrorAndThrow(stowed[READ_COMPLETE]))
          /\ UNCHANGED <<buffer, frame>>
     ELSE /\ buffer' = [buffer EXCEPT ![t] = TrimToTransferred(@, wsStatus)]
          /\ IF ReceivedFrameType(wsStatus.kind) = "none"
             THEN /\ Finish(t, "recv_done", UnknownFrameType)
                  /\ UNCHANGED frame
             ELSE /\ Finish(t, "recv_done", Ok)
                  /\ frame' = [frame EXCEPT ![t] =
                                 [type |-> ReceivedFrameType(wsStatus.kind),
                                  payload |-> buffer'[t]]]
  /\ m_receiveMutex' = ReceiveLockOnExit(t, result'[t])
  /\ UNCHANGED <<m_socketHandle, handles, released, closing, tstate, m_sendMutex, pending,
                 orphans, stowed, wsStatus, arg, ctx, waitResult, issued, calls>>

\* ------------------------------------------- WinHttpAction (the waiter)
Waiters(S) == {t \in Threads : pc[t] = WaitPc(S)}

\* The handle a HANDLE_CLOSING completion is about: the one thread who closed, or
\* (who = NoThread) a closed handle whose closer no longer waits for it.  Any other
\* completion is about no closed handle.
ClosedHandleOf(S, who) ==
  IF S # HANDLE_CLOSING THEN {NullHandle}
  ELSE IF who # NoThread THEN {issued[who][1]}
  ELSE LET awaited == {issued[t][1] : t \in pending[HANDLE_CLOSING]}
       IN IF closing \ awaited = {} THEN {NullHandle} ELSE closing \ awaited

\* The native facility completes one outstanding operation of status S: that of
\* thread who, or (who = NoThread) one whose caller has left.  The callback stows
\* the error and, for a read, the transfer's size and buffer type, and every
\* thread waiting for S returns from WaitForAction: true when e = 0.  A read
\* delivers its bytes into the buffer of the call that issued it.
Completion(S, who, e, rep) ==
  /\ IF who = NoThread THEN orphans[S] > 0 ELSE who \in pending[S]
  /\ pending' = [pending EXCEPT ![S] = {}]
  /\ orphans' = [orphans EXCEPT ![S] =
                   @ + Cardinality(pending[S] \ {who}) - (IF who = NoThread THEN 1 ELSE 0)]
  /\ \E h \in ClosedHandleOf(S, who) : closing' = closing \ {h}
  /\ stowed' = [stowed EXCEPT ![S] = e]
  /\ wsStatus' = IF S = READ_COMPLETE /\ e = 0 THEN rep ELSE wsStatus
  /\ buffer' = IF S = READ_COMPLETE /\ e = 0 /\ who # NoThread
               THEN [buffer EXCEPT ![who] = Deliver(@, rep.bytes)]
               ELSE buffer
  /\ pc' = [t \in Threads |-> IF t \in Waiters(S) THEN WokenPc(S) ELSE pc[t]]
  /\ waitResult' = [t \in Threads |-> IF t \in Waiters(S) THEN e = 0 ELSE waitResult[t]]
  /\ tstate' = IF S = HANDLE_CLOSING /\ Waiters(S) # {} /\ tstate = "Closing"
               THEN "Closed" ELSE tstate
  /\ UNCHANGED <<m_socketHandle, handles, released, m_sendMutex, m_receiveMutex,
                 arg, ctx, issued, result, frame, calls>>

\* The caller cancels the context of a waiting call: WaitForAction returns false,
\* and the native operation it issued stays outstanding.
CancelContext(t, S) ==
  /\ S \in CancellableStatuses
  /\ pc[t] = WaitPc(S)
  /\ ctx' = [ctx EXCEPT ![t] = TRUE]
  /\ pc' = [pc EXCEPT ![t] = WokenPc(S)]
  /\ waitResult' = [waitResult EXCEPT ![t] = FALSE]
  /\ pending' = [pending EXCEPT ![S] = @ \ {t}]
  /\ orphans' = [orphans EXCEPT ![S] = IF t \in pending[S] THEN @ + 1 ELSE @]
  /\ UNCHANGED <<m_socketHandle, handles, released, closing, tstate, m_sendMutex,
                 m_receiveMutex, stowed, wsStatus, arg, buffer, issued, result,
                 frame, calls>>

ReportsOf(S, e) == IF S = READ_COMPLETE /\ e = 0 THEN ReadReports ELSE {NoReport}

Next ==
  \/ \E t \in Threads, ft \in FrameTypes : NativeSendFrame_Begin(t, ft)
  \/ \E t \in Threads : NativeSendFrame_Lock(t)
  \/ \E t \in Threads : NativeSendFrame_Issue(t)
  \/ \E t \in Threads : NativeSendFrame_Finish(t)
  \/ \E t \in Threads : NativeReceiveFrame_Begin(t)
  \/ \E t \in Threads : NativeReceiveFrame_Lock(t)
  \/ \E t \in Threads : NativeReceiveFrame_Issue(t)
  \/ \E t \in Threads : NativeReceiveFrame_Finish(t)
  \/ \E t \in Threads, how \in {"ok", "nohandle", "noregister"} : OnUpgradedConnection(t, how)
  \/ \E t \in Threads : Close_Begin(t)
  \/ \E t \in Threads : Close_ResetRead(t)
  \/ \E t \in Threads : Close_ResetRelease(t)
  \/ \E t \in Threads : Close_Finish(t)
  \/ \E t \in Threads, c \in BOOLEAN : NativeGetCloseSocketInformation(t, c)
  \/ \E t \in Threads, st \in CloseStatuses : NativeCloseSocket_Issue(t, st)
  \/ \E t \in Threads : NativeCloseSocket_Query(t)
  \/ \E t \in Threads : NativeCloseSocket_Compare(t)
  \/ \E t \in Threads, S \in Statuses : CancelContext(t, S)
  \/ \E S \in Statuses, who \in Threads \cup {NoThread}, e \in CompletionErrors :
       /\ e \in CompletionErrorsOf(S)
       /\ \E rep \in ReportsOf(S, e) : Completion(S, who, e, rep)

Spec == Init /\ [][Next]_vars

\* The calls of one caller thread only: the transport used sequentially.
SeqThread == CHOOSE t \in Threads : \A u \in Threads : t <= u

NextSeq ==
  \/ \E how \in {"ok", "nohandle", "noregister"} : OnUpgradedConnection(SeqThread, how)
  \/ Close_Begin(SeqThread)
  \/ Close_ResetRead(SeqThread)
  \/ Close_ResetRelease(SeqThread)
  \/ Close_Finish(SeqThread)
  \/ \E c \in BOOLEAN : NativeGetCloseSocketInformation(SeqThread, c)
  \/ \E st \in CloseStatuses : NativeCloseSocket_Issue(SeqThread, st)
  \/ NativeCloseSocket_Query(SeqThread)
  \/ NativeCloseSocket_Compare(SeqThread)
  \/ \E ft \in FrameTypes : NativeSendFrame_Begin(SeqThread, ft)
  \/ NativeSendFrame_Lock(SeqThread)
  \/ NativeSendFrame_Issue(SeqThread)
  \/ NativeSendFrame_Finish(SeqThread)
  \/ NativeReceiveFrame_Begin(SeqThread)
  \/ NativeReceiveFrame_Lock(SeqThread)
  \/ NativeReceiveFrame_Issue(SeqThread)
  \/ NativeReceiveFrame_Finish(SeqThread)
  \/ \E S \in Statuses, who \in {SeqThread, NoThread}, e \in CompletionErrors :
       /\ e \in CompletionErrorsOf(S)
       /\ \E rep \in ReportsOf(S, e) : Completion(S, who, e, rep)
  \/ \E S \in Statuses : CancelContext(SeqThread, S)

SpecSeq == Init /\ [][NextSeq]_vars

\* One caller upgrading and receiving, the native facility reporting every
\* transfer size a 128-byte buffer allows.
AllReadReports ==
  ReadReports \cup {[bytes |-> n, kind |-> "BINARY_MESSAGE"] : n \in 0..ScratchSize}

NextReceive ==
  \/ \E how \in {"ok", "nohandle", "noregister"} : OnUpgradedConnection(SeqThread, how)
  \/ NativeReceiveFrame_Begin(SeqThread)
  \/ NativeReceiveFrame_Lock(SeqThread)
  \/ NativeReceiveFrame_Issue(SeqThread)
  \/ NativeReceiveFrame_Finish(SeqThread)
  \/ CancelContext(SeqThread, READ_COMPLETE)
  \/ \E who \in {SeqThread, NoThread}, e \in CompletionErrors :
       \E rep \in (IF e = 0 THEN AllReadReports ELSE {NoReport}) :
         Completion(READ_COMPLETE, who, e, rep)

SpecReceive == Init /\ [][NextReceive]_vars

\* The scheduling the calls rely on.  A running call takes its next step; a
\* caller blocked on a lock that keeps becoming free eventually takes it (fair
\* locks); every outstanding native operation eventually produces its completion.
ThreadStep(t) ==
  \/ NativeSendFrame_Issue(t) \/ NativeSendFrame_Finish(t)
  \/ NativeReceiveFrame_Issue(t) \/ NativeReceiveFrame_Finish(t)
  \/ Close_ResetRead(t) \/ Close_ResetRelease(t) \/ Close_Finish(t)
  \/ NativeCloseSocket_Query(t) \/ NativeCloseSocket_Compare(t)

Complete(S) ==
  \E who \in Threads \cup {NoThread}, e \in CompletionErrorsOf(S) :
    \E rep \in ReportsOf(S, e) : Completion(S, who, e, rep)

SpecFair ==
  /\ Spec
  /\ \A t \in Threads :
       /\ WF_vars(ThreadStep(t))
       /\ SF_vars(NativeSendFrame_Lock(t))
       /\ SF_vars(NativeReceiveFrame_Lock(t))
  /\ \A S \in Statuses : WF_vars(Complete(S))

\* ================================================================ claims

\* C1: the native send is never invoked while an earlier invocation's
\* WRITE_COMPLETE completion has not yet been observed: at most one
\* WinHttpWebSocketSend is outstanding, whatever callers, completions and
\* context cancellations do.
C1_NoSendWhileSendOutstanding == Outstanding(WRITE_COMPLETE) <= 1

\* C2: NativeSendFrame or NativeReceiveFrame invoked while the transport holds no
\* socket handle (before a successful upgrade, after Close) fails at once with a
\* programmer-error fault and issues no native send or receive.
C2_NotOpenIssuesNoNativeCall ==
  \A t \in Threads :
    pc[t] \in {"send_wait", "send_woken", "send_done", "recv_wait", "recv_woken", "recv_done"}
      => \A i \in 1..Len(issued[t]) : issued[t][i] # NullHandle

\* C3: at most one NativeSendFrame is in flight (it holds the send lock, from the
\* native send to the end of its completion wait), and at most one
\* NativeReceiveFrame (holding the receive lock), for any number of callers.
SendInFlight == {t \in Threads : pc[t] \in {"send_call", "send_wait", "send_woken"}}
ReceiveInFlight == {t \in Threads : pc[t] \in {"recv_call", "recv_wait", "recv_woken"}}

C3_AtMostOneInFlight ==
  /\ Cardinality(SendInFlight) <= 1
  /\ Cardinality(ReceiveInFlight) <= 1
  /\ \A t \in SendInFlight : m_sendMutex = t
  /\ \A t \in ReceiveInFlight : m_receiveMutex = t

\* A send in flight while another caller is blocked on the send lock, and the same
\* on the receive side in another run.
C3_Witness ==
  \E t, u \in Threads : t # u /\ pc[t] = "send_wait" /\ pc[u] = "send_lock"

\* C4: a Send and a Receive never block on each other: no thread holds or waits
\* for both locks, a Receive whose lock is free can issue its native call whoever
\* holds the send lock, and a Send likewise.
C4_SendReceiveIndependent ==
  /\ \A t \in Threads :
       /\ ~(m_sendMutex = t /\ (m_receiveMutex = t \/ pc[t] = "recv_lock"))
       /\ ~(m_receiveMutex = t /\ (m_sendMutex = t \/ pc[t] = "send_lock"))
  /\ \A t \in Threads :
       (pc[t] = "recv_lock" /\ m_receiveMutex = NoThread) => ENABLED NativeReceiveFrame_Lock(t)
  /\ \A t \in Threads :
       (pc[t] = "send_lock" /\ m_sendMutex = NoThread) => ENABLED NativeSendFrame_Lock(t)

\* A Receive about to take its lock while a Send waits for WRITE_COMPLETE.
C4_Witness ==
  \E t, u \in Threads :
    /\ pc[t] = "send_wait" /\ m_sendMutex = t
    /\ pc[u] = "recv_lock" /\ m_receiveMutex = NoThread

\* C5: Close is idempotent for a sequence of Close calls: a Close that finds no
\* handle returns at once with no native operation and no completion wait, no
\* handle is released twice, and when a Close has returned no handle is held and
\* every handle that existed has been released exactly once (none, if none did).
C5_CloseIdempotent ==
  [][/\ \A t \in Threads :
          (Close_Begin(t) /\ m_socketHandle = NullHandle)
            => /\ pc'[t] = "close_done"
               /\ issued'[t] = NoIssue
               /\ UNCHANGED <<m_socketHandle, released, pending, orphans>>
     /\ \A h \in Handles : released'[h] <= 1
     /\ \A t \in Threads :
          pc'[t] = "close_done"
            => /\ m_socketHandle' = NullHandle
               /\ \A h \in Handles : released'[h] = IF h <= handles' THEN 1 ELSE 0
    ]_vars

\* A Close that did nothing, on a transport whose handle was released before.
C5_Witness ==
  /\ pc[SeqThread] = "close_done"
  /\ issued[SeqThread] = NoIssue
  /\ handles = 1
  /\ released[1] = 1

\* C6: NativeCloseSocket returns successfully only if the close status the query
\* reported equals the status sent; whenever they differ it raises the fault that
\* names both values.
C6_CloseStatusVerified ==
  /\ [](\A t \in Threads :
          (pc[t] = "ncs_done" /\ result[t].kind = "ok") => result[t].got = arg[t])
  /\ [][\A t \in Threads :
          (pc[t] = "ncs_info" /\ pc'[t] # "ncs_info")
            => /\ pc'[t] = "ncs_done"
               /\ IF result[t].got = arg[t]
                  THEN result'[t].kind = "ok"
                  ELSE result'[t] = CloseStatusMismatch(result[t].got, arg[t])
       ]_vars

\* Sent 1000, reported 1001: the mismatch fault naming both.
C6_Witness ==
  \E t \in Threads :
    pc[t] = "ncs_done" /\ arg[t] = 1000 /\ result[t] = CloseStatusMismatch(1001, 1000)

\* C7: when the CLOSE_COMPLETE wait did not resolve and the stowed error is
\* ERROR_WINHTTP_OPERATION_CANCELLED, NativeCloseSocket goes on to the close
\* information query; any other non-zero stowed error is raised as a native fault.
C7_CancelledCloseProceeds ==
  [][\A t \in Threads :
       (pc[t] = "ncs_woken" /\ pc'[t] # "ncs_woken" /\ ~waitResult[t])
         => /\ stowed[CLOSE_COMPLETE] = ERROR_WINHTTP_OPERATION_CANCELLED
                 => IF ctx[t] THEN result'[t] = OperationCancelled
                    ELSE issued'[t] = Append(issued[t], m_socketHandle)
            /\ stowed[CLOSE_COMPLETE] \notin {0, ERROR_WINHTTP_OPERATION_CANCELLED}
                 => /\ pc'[t] = "ncs_done"
                    /\ issued'[t] = issued[t]
                    /\ result'[t] = GetErrorAndThrow(stowed[CLOSE_COMPLETE])
    ]_vars

\* A close whose wait ended with the stowed cancellation and that made its query.
C7_Witness ==
  \E t \in Threads :
    /\ pc[t] \in {"ncs_info", "ncs_done"}
    /\ ~waitResult[t] /\ ~ctx[t]
    /\ stowed[CLOSE_COMPLETE] = ERROR_WINHTTP_OPERATION_CANCELLED
    /\ Len(issued[t]) = 2

\* C8: a NativeSendFrame, NativeReceiveFrame or NativeCloseSocket whose context
\* was cancelled during its completion wait ends with a cancellation outcome, not
\* with the fault that carries a stowed native error code.
C8_CancellationIsDistinct ==
  \A t \in Threads :
    (pc[t] \in {"send_done", "recv_done", "ncs_done"} /\ ctx[t])
      => result[t].kind # "TransportException"

\* C9: a successful NativeReceiveFrame returns exactly the first bytesTransferred
\* bytes of its 128-byte scratch buffer, bytesTransferred being the count the
\* READ_COMPLETE completion reported.
C9_PayloadIsTransferredPrefix ==
  [][\A t \in Threads :
       (pc[t] = "recv_woken" /\ pc'[t] = "recv_done" /\ result'[t].kind = "ok")
         => /\ Len(buffer[t]) = ScratchSize
            /\ Len(frame'[t].payload) = wsStatus.bytes
            /\ frame'[t].payload = SubSeq(buffer[t], 1, wsStatus.bytes)
    ]_vars

\* Five bytes of a binary message were reported: {Binary, those 5 bytes}.
C9_Witness ==
  \E t \in Threads :
    /\ pc[t] = "recv_done"
    /\ result[t].kind = "ok"
    /\ frame[t] = [type |-> "Binary", payload |-> <<1, 2, 3, 4, 5>>]

\* C10: the socket handle is non-null exactly when the transport is Open or
\* Closing (Open from a successful upgrade, Closing from the invocation of Close,
\* Closed from the observed HANDLE_CLOSING completion).
C10_HandleValidIffOpenOrClosing ==
  (m_socketHandle # NullHandle) <=> (tstate \in {"Open", "Closing"})

\* C11 as stated: no NativeSendFrame, NativeReceiveFrame or NativeCloseSocket call
\* that issued its native asynchronous call returns successfully unless its
\* completion wait resolved to the expected status.
C11_SuccessOnlyAfterResolvedWait ==
  \A t \in Threads :
    (pc[t] \in {"send_done", "recv_done", "ncs_done"} /\ result[t].kind = "ok")
      => waitResult[t]

\* C11, amended: a NativeSendFrame or NativeReceiveFrame returns successfully only
\* from its one completion wait, resolved; a NativeCloseSocket returns successfully
\* only after its one completion wait, and if that wait did not resolve, only when
\* the stowed CLOSE_COMPLETE error read afterwards was 0 or
\* ERROR_WINHTTP_OPERATION_CANCELLED and the context was not cancelled.
C11_SuccessOnlyAfterWait ==
  /\ [](\A t \in Threads :
          (pc[t] \in {"send_done", "recv_done"} /\ result[t].kind = "ok")
            => /\ waitResult[t]
               /\ Len(issued[t]) = 1)
  /\ [][\A t \in Threads :
          /\ (pc'[t] = "send_done" /\ pc[t] # "send_done" /\ result'[t].kind = "ok")
               => pc[t] = "send_woken"
          /\ (pc'[t] = "recv_done" /\ pc[t] # "recv_done" /\ result'[t].kind = "ok")
               => pc[t] = "recv_woken"
          /\ (pc'[t] = "ncs_info" /\ pc[t] # "ncs_info")
               => /\ pc[t] = "ncs_woken"
                  /\ waitResult[t]
                       \/ /\ ~ctx[t]
                          /\ stowed[CLOSE_COMPLETE] \in {0, ERROR_WINHTTP_OPERATION_CANCELLED}
          /\ (pc'[t] = "ncs_done" /\ pc[t] # "ncs_done" /\ result'[t].kind = "ok")
               => pc[t] = "ncs_info"
       ]_vars

\* A NativeCloseSocket that returned successfully although its wait did not resolve.
C11_Witness ==
  \E t \in Threads :
    pc[t] = "ncs_done" /\ result[t].kind = "ok" /\ ~waitResult[t] /\ Len(issued[t]) = 2

\* C12: a Close that found a socket handle closes it inside the awaited action
\* and does not return before the HANDLE_CLOSING completion of the handle it
\* closed has been observed.
C12_CloseWaitsForHandleClosing ==
  [][\A t \in Threads :
       /\ (pc[t] = "close_action" /\ pc'[t] # "close_action") => pc'[t] = "close_reset"
       /\ (pc[t] = "close_reset" /\ pc'[t] # "close_reset") => pc'[t] = "close_wait"
       /\ (pc[t] = "close_woken" /\ pc'[t] = "close_done" /\ issued[t] # NoIssue)
            => issued[t][1] \notin closing
    ]_vars

\* C13: every socket handle OnUpgradedConnection created is destroyed at most
\* once, and only by Close inside its awaited HANDLE_CLOSING action, over any
\* sequence of OnUpgradedConnection and Close calls (the destructor is a Close).
C13_HandleDestroyedOnceByClose ==
  [][\A h \in Handles :
       /\ released'[h] <= 1
       /\ released'[h] # released[h]
            => \E t \in Threads :
                 pc[t] = "close_reset" /\ pc'[t] = "close_wait" /\ issued'[t] = <<h>>
    ]_vars

\* C14: an OnUpgradedConnection that fails (no handle obtained, or the
\* registration for completions refused) raises a fault and leaves the transport
\* without a socket handle, so that no later call issues a native operation on one.
C14_FailedUpgradeLeavesNoHandle ==
  [][\A t \in Threads :
       (\E how \in {"nohandle", "noregister"} : OnUpgradedConnection(t, how))
         => /\ result'[t].kind = "TransportException"
            /\ m_socketHandle' = NullHandle
    ]_vars

\* C15: sends are serialized and never retried: a NativeSendFrame invokes the
\* native send at most once, and when it invokes it, every native send an earlier
\* call issued has had its WRITE_COMPLETE observed (none is outstanding), so the
\* frames leave in the order in which the callers took the send lock.
C15_SendsSerialized ==
  /\ [](\A t \in Threads :
          pc[t] \in {"send_call", "send_wait", "send_woken", "send_done"}
            => Len(issued[t]) <= 1)
  /\ [][\A t \in Threads :
          (pc[t] = "send_call" /\ pc'[t] # "send_call")
            => Outstanding(WRITE_COMPLETE) = 0
       ]_vars

\* C16: the send lock is free once a NativeSendFrame has returned or raised, and
\* the receive lock once a NativeReceiveFrame has, whatever the outcome: a lock is
\* held only by a call between taking it and leaving, so a caller waiting for a
\* lock that no running call holds can take it.
C16_LocksReleasedOnExit ==
  /\ \A t \in Threads :
       /\ m_sendMutex = t => pc[t] \in {"send_call", "send_wait", "send_woken"}
       /\ m_receiveMutex = t => pc[t] \in {"recv_call", "recv_wait", "recv_woken"}
  /\ \A t \in Threads :
       /\ (pc[t] = "send_lock" /\ SendInFlight = {}) => ENABLED NativeSendFrame_Lock(t)
       /\ (pc[t] = "recv_lock" /\ ReceiveInFlight = {}) => ENABLED NativeReceiveFrame_Lock(t)

\* A receive that raised for an unknown frame kind while another caller waits for
\* the receive lock, which is free.
C16_Witness ==
  \E t, u \in Threads :
    /\ pc[t] = "recv_done" /\ result[t] = UnknownFrameType
    /\ pc[u] = "recv_lock"
    /\ m_receiveMutex = NoThread

\* C17: the two mappings are symmetric: NativeSendFrame maps each of Text, Binary,
\* TextFragment, BinaryFragment to a buffer kind that NativeReceiveFrame maps back
\* to it, and any other frame type raises; NativeReceiveFrame maps a reported kind
\* of that table to the frame type NativeSendFrame maps to it, the close kind to
\* Closed, and raises for any other kind.
MappedFrameTypes == {"Text", "Binary", "TextFragment", "BinaryFragment"}

C17_MappingsSymmetric ==
  [][\A t \in Threads :
       /\ \A ft \in FrameTypes :
            NativeSendFrame_Begin(t, ft)
              => IF ft \in MappedFrameTypes
                 THEN /\ pc'[t] = "send_lock"
                      /\ ReceivedFrameType(SendBufferType(frame'[t].type)) = ft
                 ELSE /\ pc'[t] = "send_done"
                      /\ result'[t] = UnknownFrameType
       /\ (pc[t] = "recv_woken" /\ pc'[t] = "recv_done" /\ waitResult[t])
            => IF \E ft \in MappedFrameTypes : SendBufferType(ft) = wsStatus.kind
               THEN /\ result'[t].kind = "ok"
                    /\ frame'[t].type \in MappedFrameTypes
                    /\ SendBufferType(frame'[t].type) = wsStatus.kind
               ELSE IF wsStatus.kind = "CLOSE"
               THEN result'[t].kind = "ok" /\ frame'[t].type = "Closed"
               ELSE result'[t] = UnknownFrameType
    ]_vars

\* A TextFragment was sent as a UTF-8 fragment, and a UTF-8 fragment was received
\* as a TextFragment.
C17_Witness ==
  \E t, u \in Threads :
    /\ pc[t] = "send_done" /\ result[t].kind = "ok"
    /\ SendBufferType(frame[t].type) = "UTF8_FRAGMENT"
    /\ pc[u] = "recv_done" /\ result[u].kind = "ok" /\ frame[u].type = "TextFragment"

\* C18: the frame a successful NativeReceiveFrame returns comes from the
\* completion of the native receive that call issued: its payload is the bytes that
\* receive delivered into the call's buffer, as many as that completion reported.
C18_FrameFromOwnCompletion ==
  \A t \in Threads :
    (pc[t] = "recv_done" /\ result[t].kind = "ok")
      => \A i \in 1..Len(frame[t].payload) : frame[t].payload[i] = DataByte(i)

\* C19: whatever Close does concurrently, no native send, receive, close or
\* close-status query is issued on a socket handle that a Close has already
\* released (a Close that is past its reset of that handle).
ReleasedByClose(h) ==
  \E u \in Threads :
    pc[u] \in {"close_wait", "close_woken", "close_done"} /\ issued[u] = <<h>>

C19_NoNativeCallOnReleasedHandle ==
  [][\A t \in Threads :
       /\ (pc[t] \in {"send_call", "recv_call"} /\ pc'[t] # pc[t])
            => ~ReleasedByClose(issued[t][1])
       /\ (/\ pc'[t] \in {"ncs_wait", "ncs_done", "ncs_info", "info_done"}
           /\ issued'[t] # issued[t]
           /\ issued'[t] # NoIssue)
            => ~ReleasedByClose(issued'[t][Len(issued'[t])])
    ]_vars

\* C20: with running calls taking their steps, fair locks and every outstanding
\* native operation eventually completing, every NativeSendFrame,
\* NativeReceiveFrame, NativeCloseSocket and Close call that was invoked eventually
\* returns or raises.
C20_EveryCallReturns ==
  \A t \in Threads : (pc[t] \notin {"idle"} \cup DonePcs) ~> (pc[t] \in DonePcs)

====
